---- MODULE Spec2Model ----
(***************************************************************************)
(* Article generation service: the request handler of api.py, the input   *)
(* validation of utils.py and the five-node generation graph of           *)
(* generation.py (title, summary, body, translator, tags).                *)
(*                                                                         *)
(* The LLM, the JSON output parser's verdict on the LLM's text and the    *)
(* translation service are external: each call is a step of its own, and  *)
(* its reply is drawn from every outcome the service can produce.         *)
(* The graph executor is the library's: a run starts at the entry point,  *)
(* merges each node's returned mapping into the run's state by key, and   *)
(* follows the node's outgoing edge; a node without one (tags_generator:  *)
(* the source sets no finish point) ends the run. JsonOutputParser is     *)
(* taken to raise on text that is not JSON.                               *)
(* Requests interleave at their external calls, which covers a server     *)
(* that runs the handlers one after another as well.                      *)
(***************************************************************************)
EXTENDS Integers, Sequences, FiniteSets, TLC

\* ---------------------------------------------------------------- bounds
MaxLen == 2        \* longest instruction string drawn
NumValues == 2     \* distinct texts the LLM / the translator may answer with
NumReqs == 2       \* requests in flight at once in SpecConc

\* ---------------------------------------------------------------- values
Chars == {" ", "a"}
Whitespace == {" ", "\t", "\n", "\r", "\f"}

Strings(n) == UNION {[1..k -> Chars] : k \in 0..n}

StrInput(s) == [kind |-> "str", chars |-> s, num |-> 0]
NonStrInputs ==
    { [kind |-> "none", chars |-> <<>>, num |-> 0],
      [kind |-> "int", chars |-> <<>>, num |-> 0],
      [kind |-> "int", chars |-> <<>>, num |-> 5] }
Inputs == {StrInput(s) : s \in Strings(MaxLen)} \cup NonStrInputs
ConcInputs == {StrInput(<<" ">>), StrInput(<<"a">>), StrInput(<<"a", "a">>)}

Empty == [k \in {} |-> 0]

\* ------------------------------------------------------------- utils.py
\* Python truth value of the argument (`not input_str`).
Truthy(x) ==
    CASE x.kind = "str" -> Len(x.chars) > 0
      [] x.kind = "int" -> x.num # 0
      [] OTHER -> FALSE

RECURSIVE lstrip(_)
lstrip(s) == IF s # <<>> /\ Head(s) \in Whitespace THEN lstrip(Tail(s)) ELSE s
RECURSIVE rstrip(_)
rstrip(s) ==
    IF s # <<>> /\ s[Len(s)] \in Whitespace
    THEN rstrip(SubSeq(s, 1, Len(s) - 1))
    ELSE s
strip(s) == rstrip(lstrip(s))

HTTPException(code, msg) == [raised |-> TRUE, status |-> code, detail |-> msg]
NoException == [raised |-> FALSE, status |-> 0, detail |-> ""]

validate_string_nostrip(x) ==
    IF ~Truthy(x) THEN HTTPException(400, "Input must be a string")
    ELSE IF x.kind # "str" THEN HTTPException(400, "Input must be a string")
    ELSE NoException

validate_string(x) ==
    IF ~Truthy(x) THEN HTTPException(400, "Input must be a string")
    ELSE IF x.kind # "str" THEN HTTPException(400, "Input must be a string")
    ELSE IF strip(x.chars) = <<>>
         THEN HTTPException(400, "Input cannot be empty or just whitespace")
    ELSE NoException

\* -------------------------------------------------------- generation.py
Fields ==
    {"instruction", "title_en", "seo_en", "summary_en", "body_en",
     "title_id", "seo_id", "summary_id", "body_id", "tags"}

Nodes ==
    {"title_generator", "summary_generator", "body_generator",
     "translator", "tags_generator"}
LLMNodes == Nodes \ {"translator"}

EntryPoint == "title_generator"

EdgesSwapped ==
    { <<"title_generator", "body_generator">>,
      <<"body_generator", "summary_generator">>,
      <<"summary_generator", "translator">>,
      <<"translator", "tags_generator">> }

Edges ==
    { <<"title_generator", "summary_generator">>,
      <<"summary_generator", "body_generator">>,
      <<"body_generator", "translator">>,
      <<"translator", "tags_generator">> }

END == "__end__"

NextNodeLoop(n) ==
    IF \E e \in Edges : e[1] = n
    THEN (CHOOSE e \in Edges : e[1] = n)[2]
    ELSE EntryPoint

\* The node the run moves to after n: the target of n's edge, or the end of
\* the run when n has none.
NextNode(n) ==
    IF \E e \in Edges : e[1] = n
    THEN (CHOOSE e \in Edges : e[1] = n)[2]
    ELSE END

\* The executor's merge of a node's returned mapping into the run's state.
Merge(s, d) ==
    [k \in DOMAIN s \cup DOMAIN d |-> IF k \in DOMAIN d THEN d[k] ELSE s[k]]

\* PromptTemplate.invoke with the mapping {k: state[k]} for k in reads.
Render(template, reads, s) ==
    [template |-> template, vars |-> [k \in reads |-> s[k]]]

Returned(d) == [raised |-> FALSE, delta |-> d]
KeyError == [raised |-> TRUE, delta |-> Empty]

\* --- title_generator
title_reads == {"instruction"}
title_prompt(s) == Render("title_generator", title_reads, s)

title_generator_noseo(response) ==
    IF "title_en" \in DOMAIN response
    THEN Returned("title_en" :> response["title_en"])
    ELSE KeyError

title_generator(response) ==
    IF "title_en" \in DOMAIN response
    THEN Returned(("title_en" :> response["title_en"])
                  @@ ("seo_en" :> response["title_en"]))
    ELSE KeyError

\* --- summary_generator
summary_reads_leaky == {"title_en", "instruction"}
summary_reads == {"title_en"}
summary_prompt(s) == Render("summary_generator", summary_reads, s)

summary_generator(response) ==
    IF "summary_en" \in DOMAIN response
    THEN Returned("summary_en" :> response["summary_en"])
    ELSE KeyError

\* --- body_generator
body_reads == {"title_en", "summary_en"}
body_prompt(s) == Render("body_generator", body_reads, s)

body_generator_default(response) ==
    IF "body_en" \in DOMAIN response
    THEN Returned("body_en" :> response["body_en"])
    ELSE Returned("body_en" :> 1)

body_generator_all(response) ==
    IF "body_en" \in DOMAIN response THEN Returned(response) ELSE KeyError

body_generator(response) ==
    IF "body_en" \in DOMAIN response
    THEN Returned("body_en" :> response["body_en"])
    ELSE KeyError

\* --- tags_generator
tags_reads == {"title_id", "summary_id"}
tags_prompt(s) == Render("tags_generator", tags_reads, s)

tags_generator(response) ==
    IF "tags" \in DOMAIN response
    THEN Returned("tags" :> response["tags"])
    ELSE KeyError

\* --- translator
translator_reads == {"title_en", "summary_en", "body_en"}

\* The local the k-th GoogleTranslator call translates.
TranslateFieldSlip(k) == <<"title_en", "summary_en", "summary_en">>[k]
TranslateField(k) == <<"title_en", "summary_en", "body_en">>[k]
\* The local the k-th call's result is bound to.
TranslateResult(k) == <<"title_id", "summary_id", "body_id">>[k]

Translation(text) ==
    [text |-> text, source |-> "en", target |-> "id"]

translator_seo_slip(l) ==
    Returned(("title_id" :> l["title_id"]) @@ ("seo_id" :> l["summary_id"])
             @@ ("summary_id" :> l["summary_id"]) @@ ("body_id" :> l["body_id"]))

\* The mapping translator returns from its locals l.
translator(l) ==
    Returned(("title_id" :> l["title_id"]) @@ ("seo_id" :> l["title_id"])
             @@ ("summary_id" :> l["summary_id"]) @@ ("body_id" :> l["body_id"]))

Reads(n) ==
    CASE n = "title_generator" -> title_reads
      [] n = "summary_generator" -> summary_reads
      [] n = "body_generator" -> body_reads
      [] n = "tags_generator" -> tags_reads
      [] OTHER -> translator_reads

Prompt(n, s) ==
    CASE n = "title_generator" -> title_prompt(s)
      [] n = "summary_generator" -> summary_prompt(s)
      [] n = "body_generator" -> body_prompt(s)
      [] OTHER -> tags_prompt(s)

\* The part of an LLM node after the chain's invoke: what it returns for the
\* parsed response.
NodeReturn(n, response) ==
    CASE n = "title_generator" -> title_generator(response)
      [] n = "summary_generator" -> summary_generator(response)
      [] n = "body_generator" -> body_generator(response)
      [] OTHER -> tags_generator(response)

\* The key each prompt asks the LLM to answer under.
RequiredKey(n) ==
    CASE n = "title_generator" -> "title_en"
      [] n = "summary_generator" -> "summary_en"
      [] n = "body_generator" -> "body_en"
      [] OTHER -> "tags"

\* ------------------------------------------------------------ the state
VARIABLES
    reqs,      \* the requests of this run of the service
    texts,     \* texts[r]: the texts the external services may answer
               \* request r's calls with
    input,     \* input[r]: the input_text of request r
    pc,        \* pc[r]: "received", "running", "calling" (blocked on an
               \* external call) or "responded"
    node,      \* node[r]: the graph node request r's run is at
    sub,       \* sub[r]: translator calls of the current node completed
    locals,    \* locals[r]: the translator node's local variables
    state,     \* state[i]: the state record of graph run i
    calls,     \* calls[r]: the external calls request r issued, in order
    executed,  \* executed[r]: the nodes request r's run entered, in order
    invoked,   \* invoked[r]: calls of generate_article made for r
    response   \* response[r]: what the handler answered

vars ==
    <<reqs, texts, input, pc, node, sub, locals, state, calls, executed,
      invoked, response>>

SharedRun(r) == 1
\* The state record request r's run works on: generate_article starts a run
\* of its own, with a state record of its own, for every request.
StateSlot(r) == r

NoResponse == [status |-> 0, detail |-> "", body |-> Empty]
NoLocals ==
    [k \in translator_reads \cup {"title_id", "summary_id", "body_id"} |-> 0]

\* ---------------------------------------------------------------- api.py
\* The handler's `except Exception` branch.
HandlerExcept ==
    [status |-> 500, detail |-> "Internal server error", body |-> Empty]

\* What the LLM can send back for node n's prompt: a service error, text
\* the parser rejects, or a JSON mapping with or without the key asked for
\* (and possibly with a key nobody asked for).
ExtraKey(n) ==
    CASE n = "title_generator" -> "seo_en"
      [] n = "summary_generator" -> "title_en"
      [] n = "body_generator" -> "title_en"
      [] OTHER -> "title_id"
Answers(r, n) ==
    IF n = "tags_generator" THEN {<<v>> : v \in texts[r]} ELSE texts[r]
LLMReplies(r, n) ==
    { [kind |-> "error", map |-> Empty], [kind |-> "garbage", map |-> Empty],
      [kind |-> "json", map |-> Empty] }
    \cup { [kind |-> "json", map |-> ("result" :> v)] : v \in texts[r] }
    \cup { [kind |-> "json", map |-> (RequiredKey(n) :> v)] : v \in Answers(r, n) }
    \cup { [kind |-> "json", map |-> (RequiredKey(n) :> v) @@ (ExtraKey(n) :> w)] :
             v \in Answers(r, n), w \in texts[r] }

TranslatorReplies(r) ==
    {[kind |-> "error", text |-> 0]}
    \cup {[kind |-> "ok", text |-> v] : v \in texts[r]}

Call(svc, n, arg) ==
    [svc |-> svc, stage |-> n, arg |-> arg, reply |-> "pending",
     haskey |-> FALSE, result |-> 0]

Last(s) == s[Len(s)]
SetLast(s, e) == [s EXCEPT ![Len(s)] = e]

TypeOK ==
    /\ pc \in [reqs -> {"received", "running", "calling", "responded"}]
    /\ node \in [reqs -> Nodes \cup {END}]
    /\ sub \in [reqs -> 0..2]
    /\ \A r \in reqs : DOMAIN state[r] \subseteq Fields

InitWith(rs, ins, ts) ==
    /\ reqs = rs
    /\ texts = ts
    /\ input \in [rs -> ins]
    /\ pc = [r \in rs |-> "received"]
    /\ node = [r \in rs |-> EntryPoint]
    /\ sub = [r \in rs |-> 0]
    /\ locals = [r \in rs |-> NoLocals]
    /\ state = [r \in rs |-> Empty]
    /\ calls = [r \in rs |-> <<>>]
    /\ executed = [r \in rs |-> <<>>]
    /\ invoked = [r \in rs |-> 0]
    /\ response = [r \in rs |-> NoResponse]

\* One request, every input, NumValues texts.
Init == InitWith({1}, Inputs, [r \in {1} |-> 1..NumValues])
\* NumReqs requests at once, the services answering all of them alike.
InitConc == InitWith(1..NumReqs, ConcInputs, [r \in 1..NumReqs |-> {1}])
\* NumReqs requests at once, the services answering each with a text of its
\* own, so that a text tells which request's call produced it.
InitIso == InitWith(1..NumReqs, ConcInputs, [r \in 1..NumReqs |-> {r}])

\* The exception reaches the handler's except branch: the request ends.
Fail(r) ==
    /\ pc' = [pc EXCEPT ![r] = "responded"]
    /\ response' = [response EXCEPT ![r] = HandlerExcept]

\* Node n of r's run returned mapping d: merge it, follow n's edge; at the
\* end of the run app.invoke returns the state and the handler answers it.
Advance(r, n, d) ==
    LET i == StateSlot(r)
        s1 == Merge(state[i], d)
        m == NextNode(n)
    IN /\ state' = [state EXCEPT ![i] = s1]
       /\ node' = [node EXCEPT ![r] = m]
       /\ IF m = END
          THEN /\ pc' = [pc EXCEPT ![r] = "responded"]
               /\ response' = [response EXCEPT ![r] =
                                 [status |-> 200, detail |-> "", body |-> s1]]
          ELSE /\ pc' = [pc EXCEPT ![r] = "running"]
               /\ UNCHANGED response

\* classify_texts: validate_string raises, outside the try block.
Reject(r) ==
    /\ pc[r] = "received"
    /\ validate_string(input[r]).raised
    /\ pc' = [pc EXCEPT ![r] = "responded"]
    /\ response' = [response EXCEPT ![r] =
                      [status |-> validate_string(input[r]).status,
                       detail |-> validate_string(input[r]).detail,
                       body |-> Empty]]
    /\ UNCHANGED <<reqs, texts, input, node, sub, locals, state, calls,
                   executed, invoked>>

\* classify_texts: validation passed; ArticleGenerator(llm) builds the
\* graph, generate_article compiles it and starts a run on
\* {"instruction": instruction}.
Start(r) ==
    /\ pc[r] = "received"
    /\ ~validate_string(input[r]).raised
    /\ invoked' = [invoked EXCEPT ![r] = @ + 1]
    /\ state' = [state EXCEPT ![StateSlot(r)] = ("instruction" :> input[r].chars)]
    /\ node' = [node EXCEPT ![r] = EntryPoint]
    /\ pc' = [pc EXCEPT ![r] = "running"]
    /\ UNCHANGED <<reqs, texts, input, sub, locals, calls, executed, response>>

\* An LLM node starts: it renders its prompt from the state (a KeyError if
\* a field it reads is not there) and sends it to the LLM.
LLMIssue(r) ==
    /\ pc[r] = "running"
    /\ node[r] \in LLMNodes
    /\ executed' = [executed EXCEPT ![r] = Append(@, node[r])]
    /\ IF Reads(node[r]) \subseteq DOMAIN state[StateSlot(r)]
       THEN /\ calls' = [calls EXCEPT ![r] =
                  Append(@, Call("llm", node[r],
                                 Prompt(node[r], state[StateSlot(r)])))]
            /\ pc' = [pc EXCEPT ![r] = "calling"]
            /\ UNCHANGED response
       ELSE /\ Fail(r)
            /\ UNCHANGED calls
    /\ UNCHANGED <<reqs, texts, input, node, sub, locals, state, invoked>>

\* The LLM call returns (or raises), JsonOutputParser parses the text (or
\* raises), the node picks its key (or raises) and returns its mapping.
LLMReturn(r) ==
    /\ pc[r] = "calling"
    /\ node[r] \in LLMNodes
    /\ \E a \in LLMReplies(r, node[r]) :
         LET n == node[r]
             has == RequiredKey(n) \in DOMAIN a.map
             ret == NodeReturn(n, a.map)
             done == [Last(calls[r]) EXCEPT
                        !.reply = a.kind, !.haskey = has,
                        !.result = IF has THEN a.map[RequiredKey(n)] ELSE 0]
         IN /\ calls' = [calls EXCEPT ![r] = SetLast(@, done)]
            /\ IF a.kind # "json" \/ ret.raised
               THEN /\ Fail(r)
                    /\ UNCHANGED <<state, node>>
               ELSE Advance(r, n, ret.delta)
    /\ UNCHANGED <<reqs, texts, input, sub, locals, executed, invoked>>

\* The translator node: on entry it reads its three inputs from the state
\* (a KeyError if one is not there); then it sends the next text.
TranslateIssue(r) ==
    /\ pc[r] = "running"
    /\ node[r] = "translator"
    /\ executed' = [executed EXCEPT ![r] =
                      IF sub[r] = 0 THEN Append(@, node[r]) ELSE @]
    /\ IF sub[r] = 0 /\ ~(translator_reads \subseteq DOMAIN state[StateSlot(r)])
       THEN /\ Fail(r)
            /\ UNCHANGED <<calls, locals>>
       ELSE LET l == IF sub[r] = 0
                     THEN [k \in DOMAIN NoLocals |->
                             IF k \in translator_reads
                             THEN state[StateSlot(r)][k] ELSE 0]
                     ELSE locals[r]
            IN /\ locals' = [locals EXCEPT ![r] = l]
               /\ calls' = [calls EXCEPT ![r] =
                     Append(@, Call("translator", TranslateResult(sub[r] + 1),
                                    Translation(l[TranslateField(sub[r] + 1)])))]
               /\ pc' = [pc EXCEPT ![r] = "calling"]
               /\ UNCHANGED response
    /\ UNCHANGED <<reqs, texts, input, node, sub, state, invoked>>

\* A translate call returns (or raises); after the third the node returns
\* its mapping.
TranslateReturn(r) ==
    /\ pc[r] = "calling"
    /\ node[r] = "translator"
    /\ \E a \in TranslatorReplies(r) :
         LET k == sub[r] + 1
             l == [locals[r] EXCEPT ![TranslateResult(k)] = a.text]
             done == [Last(calls[r]) EXCEPT
                        !.reply = a.kind, !.haskey = (a.kind = "ok"),
                        !.result = a.text]
         IN /\ calls' = [calls EXCEPT ![r] = SetLast(@, done)]
            /\ IF a.kind # "ok"
               THEN /\ Fail(r)
                    /\ UNCHANGED <<state, node, sub, locals>>
               ELSE /\ locals' = [locals EXCEPT ![r] = l]
                    /\ IF k < 3
                       THEN /\ sub' = [sub EXCEPT ![r] = k]
                            /\ pc' = [pc EXCEPT ![r] = "running"]
                            /\ UNCHANGED <<state, node, response>>
                       ELSE /\ sub' = [sub EXCEPT ![r] = 0]
                            /\ Advance(r, "translator", translator(l).delta)
    /\ UNCHANGED <<reqs, texts, input, executed, invoked>>

Next ==
    \/ \E r \in reqs : Reject(r)
    \/ \E r \in reqs : Start(r)
    \/ \E r \in reqs : LLMIssue(r)
    \/ \E r \in reqs : LLMReturn(r)
    \/ \E r \in reqs : TranslateIssue(r)
    \/ \E r \in reqs : TranslateReturn(r)

Spec == Init /\ [][Next]_vars
SpecConc == InitConc /\ [][Next]_vars
SpecIso == InitIso /\ [][Next]_vars

\* ================================================================ claims
\* An instruction the handler is specified to accept: a string with at
\* least one character that is not whitespace.
Valid(x) ==
    /\ x.kind = "str"
    /\ \E i \in 1..Len(x.chars) : x.chars[i] \notin Whitespace

\* The external call c came back unusable: the service raised, the text was
\* not JSON, or the JSON lacks the key the stage asked for.
Failed(c) ==
    \/ c.reply \in {"error", "garbage"}
    \/ c.reply = "json" /\ ~c.haskey
Answered(c) == c.reply \in {"json", "ok"} /\ c.haskey

Run(r) == state[StateSlot(r)]
IsPrefix(s, t) == Len(s) <= Len(t) /\ \A i \in 1..Len(s) : s[i] = t[i]
InternalError(r) ==
    /\ response[r].status = 500
    /\ response[r].detail = "Internal server error"
    /\ DOMAIN response[r].body = {}

\* C1 as stated: every request with a valid instruction invokes the
\* pipeline once and is answered with a record of all ten fields.
C1_Original ==
    \A r \in reqs :
        pc[r] = "responded" /\ Valid(input[r]) =>
            /\ invoked[r] = 1
            /\ response[r].status = 200
            /\ DOMAIN response[r].body = Fields

\* C1 amended: a request with a valid instruction invokes the pipeline
\* exactly once; when no external call fails it is answered with a record
\* of all ten fields, and otherwise with the generic internal error.
C1_OnceAndComplete ==
    \A r \in reqs :
        /\ invoked[r] <= 1
        /\ Valid(input[r]) /\ pc[r] # "received" => invoked[r] = 1
        /\ Valid(input[r]) /\ pc[r] = "responded" =>
              IF \E i \in 1..Len(calls[r]) : Failed(calls[r][i])
              THEN InternalError(r)
              ELSE /\ response[r].status = 200
                   /\ DOMAIN response[r].body = Fields
                   /\ response[r].body["instruction"] = input[r].chars

C1_Witness ==
    \E r \in reqs :
        /\ Valid(input[r]) /\ pc[r] = "responded" /\ invoked[r] = 1
        /\ response[r].status = 200
        /\ DOMAIN response[r].body = Fields

\* C2: an empty, whitespace-only or non-string instruction is answered
\* with status 400, never 500, and neither the pipeline nor any external
\* service is called for it.
C2_Rejected ==
    \A r \in reqs :
        ~Valid(input[r]) =>
            /\ pc[r] \in {"received", "responded"}
            /\ invoked[r] = 0
            /\ calls[r] = <<>>
            /\ executed[r] = <<>>
            /\ pc[r] = "responded" =>
                  /\ response[r].status = 400
                  /\ DOMAIN response[r].body = {}

C2_Witness ==
    \E r \in reqs :
        /\ input[r].kind = "str" /\ Len(input[r].chars) > 0
        /\ ~Valid(input[r])
        /\ pc[r] = "responded" /\ response[r].status = 400

\* C3: a failed external call (service error, malformed JSON, missing key)
\* is the request's last call, is not repeated, and the request is answered
\* with status 500 "Internal server error" and no record.
C3_FailureIsFinal ==
    \A r \in reqs :
        \A i \in 1..Len(calls[r]) :
            Failed(calls[r][i]) =>
                /\ i = Len(calls[r])
                /\ pc[r] = "responded"
                /\ InternalError(r)
                /\ \A j \in 1..Len(calls[r]) :
                      /\ calls[r][j].svc = calls[r][i].svc
                      /\ calls[r][j].stage = calls[r][i].stage
                      => j = i

C3_Witness ==
    \E r \in reqs :
        /\ Len(calls[r]) = 3
        /\ calls[r][3].stage = "body_generator"
        /\ calls[r][3].reply = "json" /\ ~calls[r][3].haskey
        /\ InternalError(r)

StageOrder ==
    <<"title_generator", "summary_generator", "body_generator",
      "translator", "tags_generator">>
Entered(r, n) == \E i \in 1..Len(executed[r]) : executed[r][i] = n
\* C4: the stages a run enters are a prefix of title, summary, body,
\* translator, tags; each is entered only with its inputs already in the
\* state; a run that is answered with a record entered all five.
C4_StageOrder ==
    \A r \in reqs :
        /\ IsPrefix(executed[r], StageOrder)
        /\ Entered(r, "summary_generator") => "title_en" \in DOMAIN Run(r)
        /\ Entered(r, "body_generator") =>
              {"title_en", "summary_en"} \subseteq DOMAIN Run(r)
        /\ Entered(r, "translator") => "body_en" \in DOMAIN Run(r)
        /\ Entered(r, "tags_generator") =>
              {"title_id", "summary_id"} \subseteq DOMAIN Run(r)
        /\ response[r].status = 200 => executed[r] = StageOrder

C4_Witness ==
    \E r \in reqs : executed[r] = StageOrder /\ response[r].status = 200

SeoMatches(s) ==
    /\ "seo_en" \in DOMAIN s =>
          "title_en" \in DOMAIN s /\ s["seo_en"] = s["title_en"]
    /\ "seo_id" \in DOMAIN s =>
          "title_id" \in DOMAIN s /\ s["seo_id"] = s["title_id"]
\* C5: wherever seo_en is set it equals title_en and wherever seo_id is set
\* it equals title_id, in the running state and in the record answered.
C5_SeoEqualsTitle ==
    \A r \in reqs : SeoMatches(Run(r)) /\ SeoMatches(response[r].body)

C5_Witness ==
    \E r \in reqs :
        /\ response[r].status = 200
        /\ response[r].body["seo_id"] = response[r].body["title_id"]
        /\ response[r].body["title_id"] # response[r].body["summary_id"]
        /\ response[r].body["seo_en"] # response[r].body["summary_en"]

Produces(n) ==
    CASE n = "title_generator" -> {"title_en", "seo_en"}
      [] n = "summary_generator" -> {"summary_en"}
      [] n = "body_generator" -> {"body_en"}
      [] n = "translator" -> {"title_id", "seo_id", "summary_id", "body_id"}
      [] OTHER -> {"tags"}
\* C6: every step keeps each field of the state record present and
\* unchanged, and a stage adds exactly the fields it computes.
C6_RecordOnlyGrows ==
    [][\A r \in reqs :
          /\ \A k \in DOMAIN Run(r) :
                k \in DOMAIN Run(r)' /\ Run(r)'[k] = Run(r)[k]
          /\ DOMAIN Run(r)' # DOMAIN Run(r) =>
                DOMAIN Run(r)' \ DOMAIN Run(r) =
                    IF pc[r] = "received" THEN {"instruction"}
                    ELSE Produces(node[r])]_vars

C6_Witness ==
    \E r \in reqs :
        /\ response[r].status = 200
        /\ DOMAIN Run(r) = Fields
        /\ Run(r)["instruction"] = input[r].chars
        /\ Run(r)["title_en"] # Run(r)["body_en"]

Origin(k) ==
    CASE k \in {"title_en", "seo_en"} -> <<"llm", "title_generator">>
      [] k = "summary_en" -> <<"llm", "summary_generator">>
      [] k = "body_en" -> <<"llm", "body_generator">>
      [] k \in {"title_id", "seo_id"} -> <<"translator", "title_id">>
      [] k = "summary_id" -> <<"translator", "summary_id">>
      [] k = "body_id" -> <<"translator", "body_id">>
      [] OTHER -> <<"llm", "tags_generator">>
OwnRecord(r, s) ==
    \A k \in DOMAIN s :
        IF k = "instruction" THEN s[k] = input[r].chars
        ELSE \E i \in 1..Len(calls[r]) :
                /\ Answered(calls[r][i])
                /\ <<calls[r][i].svc, calls[r][i].stage>> = Origin(k)
                /\ calls[r][i].result = s[k]
\* No field of s is the result of a call of a request other than r.
NotOthers(r, s) ==
    \A k \in DOMAIN s \ {"instruction"} :
        \A q \in reqs \ {r} : \A i \in 1..Len(calls[q]) :
            Answered(calls[q][i])
            /\ <<calls[q][i].svc, calls[q][i].stage>> = Origin(k)
            => calls[q][i].result # s[k]
\* C7: with several requests in flight, each works on a state record of
\* its own: the record holds that request's instruction, every other
\* field in it is the result of one of that request's own calls, and none
\* is the result of another request's call.
C7_Isolation ==
    \A r \in reqs :
        /\ OwnRecord(r, Run(r)) /\ NotOthers(r, Run(r))
        /\ OwnRecord(r, response[r].body) /\ NotOthers(r, response[r].body)
        /\ pc[r] = "received" => DOMAIN Run(r) = {}
        /\ response[r].status = 200 => response[r].body = Run(r)

C7_Witness ==
    \E r, q \in reqs :
        /\ r # q /\ input[r] # input[q]
        /\ pc[r] = "calling" /\ node[r] = "translator"
        /\ pc[q] = "calling" /\ node[q] = "summary_generator"

IsTranslate(c) == c.svc = "translator"
Translated(r) == SelectSeq(calls[r], IsTranslate)
\* C8: a run answered with a record made exactly three translator calls,
\* en to id, on title_en, summary_en and body_en in that order; title_id,
\* summary_id and body_id are their results and seo_id is the first's.
C8_ThreeTranslations ==
    \A r \in reqs :
        /\ Len(Translated(r)) <= 3
        /\ response[r].status = 200 =>
              LET tc == Translated(r)
                  b == response[r].body
                  en == <<"title_en", "summary_en", "body_en">>
                  id == <<"title_id", "summary_id", "body_id">>
              IN /\ Len(tc) = 3
                 /\ \A k \in 1..3 :
                       /\ tc[k].arg =
                            [text |-> b[en[k]], source |-> "en", target |-> "id"]
                       /\ tc[k].reply = "ok"
                       /\ b[id[k]] = tc[k].result
                 /\ b["seo_id"] = tc[1].result

C8_Witness ==
    \E r \in reqs :
        /\ response[r].status = 200
        /\ Len(Translated(r)) = 3
        /\ response[r].body["summary_en"] # response[r].body["body_en"]
        /\ response[r].body["body_id"] # response[r].body["summary_id"]

Declared(n) ==
    CASE n = "title_generator" -> {"instruction"}
      [] n = "summary_generator" -> {"title_en"}
      [] n = "body_generator" -> {"title_en", "summary_en"}
      [] OTHER -> {"title_id", "summary_id"}
IsLLMCall(r, i) == i \in 1..Len(calls[r]) /\ calls[r][i].svc = "llm"
\* C9: the prompt of every LLM stage binds exactly the stage's declared
\* input fields to their values in the state, and two requests whose
\* declared inputs agree send the same prompt whatever their instructions.
C9_PromptDependsOnDeclared ==
    /\ \A r \in reqs : \A i \in 1..Len(calls[r]) :
          IsLLMCall(r, i) =>
              /\ DOMAIN calls[r][i].arg.vars = Declared(calls[r][i].stage)
              /\ \A k \in Declared(calls[r][i].stage) :
                    calls[r][i].arg.vars[k] = Run(r)[k]
    /\ \A r, q \in reqs : \A i \in 1..Len(calls[r]) :
          /\ IsLLMCall(r, i) /\ IsLLMCall(q, i)
          /\ \A k \in Declared(calls[r][i].stage) : Run(r)[k] = Run(q)[k]
          => calls[r][i].arg = calls[q][i].arg

C9_Witness ==
    \E r, q \in reqs :
        /\ Len(calls[r]) = 7 /\ Len(calls[q]) = 7
        /\ Run(r)["instruction"] # Run(q)["instruction"]
        /\ calls[r][2].arg = calls[q][2].arg
        /\ calls[r][7].arg = calls[q][7].arg

CallOrder ==
    << <<"llm", "title_generator">>, <<"llm", "summary_generator">>,
       <<"llm", "body_generator">>, <<"translator", "title_id">>,
       <<"translator", "summary_id">>, <<"translator", "body_id">>,
       <<"llm", "tags_generator">> >>
\* C10: the external calls of a request are a prefix of the fixed sequence
\* of seven; only the last can be pending or failed, a pending call blocks
\* the request, and a failed one ends it.
C10_FailStopPrefix ==
    \A r \in reqs :
        /\ Len(calls[r]) <= Len(CallOrder)
        /\ \A i \in 1..Len(calls[r]) :
              /\ <<calls[r][i].svc, calls[r][i].stage>> = CallOrder[i]
              /\ i < Len(calls[r]) => Answered(calls[r][i])
              /\ calls[r][i].reply = "pending" => pc[r] = "calling"
              /\ Failed(calls[r][i]) => pc[r] = "responded"
        /\ pc[r] = "calling" =>
              calls[r] # <<>> /\ Last(calls[r]).reply = "pending"

C10_Witness ==
    \E r \in reqs :
        /\ Len(calls[r]) = 5
        /\ Last(calls[r]).reply = "error"
        /\ pc[r] = "responded"

====
